---------------------------- MODULE Spec2Model ----------------------------
(***************************************************************************)
(* State-machine model of src/connection.cc: the LDAPConnection facade     *)
(* over the native LDAP client library ("the engine").                     *)
(*                                                                         *)
(* Every public function is one action.  An action computes the outcome of *)
(* the whole call with an operator translated from the function body: the  *)
(* ordered trace of what the body does (engine calls with the arguments    *)
(* they receive and the code they return, transient allocations and their  *)
(* release, the raise of an error), the exception that leaves the call and *)
(* the value it returns.  The engine's return codes are inputs.            *)
(*                                                                         *)
(* Strings are finite sequences of bytes; byte 0 is the C terminator, so   *)
(* c_str()/strdup()/strlen() see a std::string only up to its first 0.     *)
(***************************************************************************)
EXTENDS Integers, Sequences, FiniteSets

(* ------------------------------ bounds -------------------------------- *)

\* Number of LDAPConnection objects the program may construct.
MaxSessions == 1
\* Longest attribute vector handed to Search.
MaxAttrs == 2
\* Longest user / password string handed to the bind calls.
MaxStrLen == 1

(* ------------------------- program constants -------------------------- *)

LDAP_VERSION2 == 2
LDAP_VERSION3 == 3
LDAP_SCOPE_SUBTREE == 2

(* ------------------------------ inputs -------------------------------- *)

Sessions == 1 .. MaxSessions
\* The NULL LDAP* handle (process-wide options are set against it).
NullHandle == 0

Bytes == {0, 1}
Strings == UNION {[1 .. n -> Bytes] : n \in 0 .. MaxStrLen}

\* Return codes the engine may produce: success, a negative code
\* (LDAP_SERVER_DOWN, LBER_OPT_ERROR) and a positive one.
RCs == {0, -1, 49}
\* Versions a caller may ask for: the two defined ones and two others.
Versions == {1, LDAP_VERSION2, LDAP_VERSION3, 4}
Scopes == {1, LDAP_SCOPE_SUBTREE}
URIs == {<<1>>}
Bases == {<<1>>}
Filters == {<<1, 1>>}
\* Bind identity: a name with an embedded 0 byte; every password differs
\* from it.
Users == {<<1, 0, 1>>}
Passwords == Strings
\* The i-th attribute name; names of one vector are pairwise different, so
\* the order of a vector is visible.
AttrName(i) == [j \in 1 .. i |-> 1]
\* Attribute vectors of every length up to MaxAttrs, in two orders.
AttrVectors ==
    {[i \in 1 .. n |-> AttrName(i)] : n \in 0 .. MaxAttrs}
        \cup {[i \in 1 .. n |-> AttrName(n + 1 - i)] : n \in 0 .. MaxAttrs}
\* Millisecond timeouts (long); negative ones are not validated by the code.
Timeouts == {0, 999, 1000, 1500, 30000, -1500}
\* (scope, attrs, timeout) of the five-argument Search: every scope with
\* every attribute vector, and every timeout with and without attributes.
SearchInputs ==
    {[scope |-> sc, attrs |-> a, timeout |-> 1500] :
        sc \in Scopes, a \in AttrVectors}
    \cup {[scope |-> LDAP_SCOPE_SUBTREE, attrs |-> a, timeout |-> t] :
        a \in {<< >>, <<AttrName(1)>>}, t \in Timeouts}
DebugLevels == {0, 1}
CertPaths == {<<1>>}
\* What the engine may store as error text: nothing, or a string.
ErrorTexts == {[null |-> TRUE, str |-> << >>], [null |-> FALSE, str |-> <<1>>]}

(* ------------------------- C / C++ primitives ------------------------- *)

Min(S) == CHOOSE x \in S : \A y \in S : x <= y

\* std::string::c_str() as the callee reads it: the bytes before the first 0.
CStr(str) ==
    LET nul == {i \in 1 .. Len(str) : str[i] = 0}
    IN  IF nul = {} THEN str ELSE SubSeq(str, 1, Min(nul) - 1)

\* strdup / ber_strdup: a fresh buffer holding a copy of the C string.
StrDup(cstr) == cstr
\* strlen
StrLen(cstr) == Len(cstr)

\* C integer division and remainder: truncation toward zero (b > 0 here).
CDiv(a, b) == IF a >= 0 THEN a \div b ELSE -((-a) \div b)
CMod(a, b) == a - b * CDiv(a, b)

\* A char* argument: non-null, pointing at the C string of str.
Ptr(str) == [null |-> FALSE, str |-> CStr(str)]
\* The null char*.
NullPtr == [null |-> TRUE, str |-> <<>>]

(* ------------------------ outcome of a call --------------------------- *)

NoExc == [kind |-> "none", code |-> 0]
NoRet == [kind |-> "void", val |-> <<>>]

Count(trace, name) == Cardinality({i \in 1 .. Len(trace) : trace[i].ev = name})
Pos(trace, name) == {i \in 1 .. Len(trace) : trace[i].ev = name}

Outcome(trace, exc, ret) == [trace |-> trace, exc |-> exc, ret |-> ret]

\* LDAPErrCode2Exception(ldap, rc), declared in ldap++.h: raises the error
\* that carries the engine's code.  Only reached with rc # 0.
LDAPErrCode2Exception(h, rc) ==
    [ev |-> "LDAPErrCode2Exception", h |-> h, code |-> rc]
LDAPException(rc) == [kind |-> "LDAPException", code |-> rc]

\* kLdapFilterAll, declared in ldap++.h: the vector standing for
\* "all attributes", an empty vector of names.
kLdapFilterAll == << >>

(* ----------------------- process-wide options ------------------------- *)

\* void LDAPSetDebuglevel(int newlevel)
LDAPSetDebuglevelCall(newlevel, rc1, rc2) ==
    LET ldapOpt == [ev |-> "ldap_set_option", h |-> NullHandle,
                    opt |-> "LDAP_OPT_DEBUG_LEVEL", val |-> newlevel,
                    rc |-> rc1]
        berOpt  == [ev |-> "ber_set_option", h |-> NullHandle,
                    opt |-> "LBER_OPT_DEBUG_LEVEL", val |-> newlevel,
                    rc |-> rc2]
    IN  IF rc1 # 0
        THEN Outcome(<<ldapOpt, LDAPErrCode2Exception(NullHandle, rc1)>>,
                     LDAPException(rc1), NoRet)
        ELSE IF rc2 # 0
        THEN Outcome(<<ldapOpt, berOpt,
                       LDAPErrCode2Exception(NullHandle, rc2)>>,
                     LDAPException(rc2), NoRet)
        ELSE Outcome(<<ldapOpt, berOpt>>, NoExc, NoRet)

\* void LDAPSetCACert(std::string path)
LDAPSetCACertCall(path, rc) ==
    LET setOpt == [ev |-> "ldap_set_option", h |-> NullHandle,
                   opt |-> "LDAP_OPT_X_TLS_CACERTFILE", val |-> Ptr(path),
                   rc |-> rc]
    IN  IF rc # 0
        THEN Outcome(<<setOpt, LDAPErrCode2Exception(NullHandle, rc)>>,
                     LDAPException(rc), NoRet)
        ELSE Outcome(<<setOpt>>, NoExc, NoRet)

(* ------------------- version, construction, teardown ------------------ *)

\* SetVersion without the check of newversion: every value goes to the engine.
SetVersionCall_Unchecked(h, newversion, rc) ==
    LET setOpt == [ev |-> "ldap_set_option", h |-> h,
                   opt |-> "LDAP_OPT_PROTOCOL_VERSION",
                   val |-> newversion, rc |-> rc]
    IN  IF rc # 0
        THEN Outcome(<<setOpt, LDAPErrCode2Exception(h, rc)>>,
                     LDAPException(rc), NoRet)
        ELSE Outcome(<<setOpt>>, NoExc, NoRet)

\* void LDAPConnection::SetVersion(int newversion)
SetVersionCall(h, newversion, rc) ==
    IF newversion # LDAP_VERSION2 /\ newversion # LDAP_VERSION3
    THEN Outcome(<<[ev |-> "throw new LDAPErrParamError", h |-> h]>>,
                 [kind |-> "LDAPErrParamError", code |-> 0], NoRet)
    ELSE LET setOpt == [ev |-> "ldap_set_option", h |-> h,
                        opt |-> "LDAP_OPT_PROTOCOL_VERSION",
                        val |-> newversion, rc |-> rc]
         IN  IF rc # 0
             THEN Outcome(<<setOpt, LDAPErrCode2Exception(h, rc)>>,
                          LDAPException(rc), NoRet)
             ELSE Outcome(<<setOpt>>, NoExc, NoRet)

\* LDAPConnection::LDAPConnection(std::string uri, int version)
\* h is the handle ldap_initialize stores in _ldap when it succeeds; when it
\* fails _ldap is left null.
LDAPConnectionCall(h, uri, version, rcInit, rcOpt) ==
    LET init == [ev |-> "ldap_initialize", h |-> h, uri |-> Ptr(uri),
                 rc |-> rcInit]
    IN  IF rcInit # 0
        THEN Outcome(<<init, LDAPErrCode2Exception(NullHandle, rcInit)>>,
                     LDAPException(rcInit), NoRet)
        ELSE LET sv == SetVersionCall(h, version, rcOpt)
             IN  Outcome(<<init>> \o sv.trace, sv.exc, NoRet)

\* A destructor that does not unbind.
LDAPConnectionDtorCall_NoUnbind(h) == Outcome(<< >>, NoExc, NoRet)

\* LDAPConnection::~LDAPConnection()
LDAPConnectionDtorCall(h) ==
    Outcome(<<[ev |-> "ldap_unbind_ext_s", h |-> h]>>, NoExc, NoRet)

\* std::string LDAPConnection::GetLastError()
\* (The text the engine hands out is copied into the result and never freed
\* by the code; that buffer is not tracked here.)
\* str is what the engine stores through &str when it succeeds; the engine
\* may store a null pointer (no error text), and std::string(NULL) is
\* undefined: the build either raises std::logic_error or the process dies.
GetLastErrorCall(h, rc, str, ub) ==
    LET getOpt == [ev |-> "ldap_get_option", h |-> h,
                   opt |-> "LDAP_OPT_ERROR_STRING", out |-> str, rc |-> rc]
    IN  IF rc # 0
        THEN Outcome(<<getOpt, LDAPErrCode2Exception(h, rc)>>,
                     LDAPException(rc), NoRet)
        ELSE IF str.null
        THEN Outcome(<<getOpt>>, [kind |-> ub, code |-> 0], NoRet)
        ELSE Outcome(<<getOpt>>, NoExc, [kind |-> "string", val |-> str.str])

(* ------------------------------- bind --------------------------------- *)

\* void LDAPConnection::SimpleBind(std::string user, std::string password)
SimpleBindCall(h, user, password, rc) ==
    LET passwd == [bv_val |-> StrDup(CStr(user)), bv_len |-> Len(user)]
        bind   == [ev |-> "ldap_sasl_bind_s", h |-> h, dn |-> Ptr(user),
                   mech |-> "LDAP_SASL_SIMPLE", cred |-> passwd, rc |-> rc]
    IN  IF rc # 0
        THEN Outcome(<<[ev |-> "strdup", h |-> h], bind,
                       [ev |-> "free", h |-> h],
                       LDAPErrCode2Exception(h, rc)>>,
                     LDAPException(rc), NoRet)
        ELSE Outcome(<<[ev |-> "strdup", h |-> h], bind,
                       [ev |-> "free", h |-> h]>>, NoExc, NoRet)

\* SASLBind that raises the error before it releases the buffer.
SASLBindCall_ThrowBeforeFree(h, user, password, rc) ==
    LET bv_val == StrDup(CStr(password))
        passwd == [bv_val |-> bv_val, bv_len |-> StrLen(bv_val)]
        bind   == [ev |-> "ldap_sasl_bind_s", h |-> h, dn |-> Ptr(user),
                   mech |-> "LDAP_SASL_SIMPLE", cred |-> passwd, rc |-> rc]
    IN  IF rc # 0
        THEN Outcome(<<[ev |-> "ber_strdup", h |-> h], bind,
                       LDAPErrCode2Exception(h, rc)>>,
                     LDAPException(rc), NoRet)
        ELSE Outcome(<<[ev |-> "ber_strdup", h |-> h], bind,
                       [ev |-> "ber_memfree", h |-> h]>>, NoExc, NoRet)

\* void LDAPConnection::SASLBind(std::string user, std::string password)
SASLBindCall(h, user, password, rc) ==
    LET bv_val == StrDup(CStr(password))
        passwd == [bv_val |-> bv_val, bv_len |-> StrLen(bv_val)]
        bind   == [ev |-> "ldap_sasl_bind_s", h |-> h, dn |-> Ptr(user),
                   mech |-> "LDAP_SASL_SIMPLE", cred |-> passwd, rc |-> rc]
    IN  IF rc # 0
        THEN Outcome(<<[ev |-> "ber_strdup", h |-> h], bind,
                       [ev |-> "ber_memfree", h |-> h],
                       LDAPErrCode2Exception(h, rc)>>,
                     LDAPException(rc), NoRet)
        ELSE Outcome(<<[ev |-> "ber_strdup", h |-> h], bind,
                       [ev |-> "ber_memfree", h |-> h]>>, NoExc, NoRet)

(* ------------------------------ search -------------------------------- *)

\* tv.tv_sec = timeout / 1000
\* (timeout is a long; the quotient and the scaled remainder below both fit
\* the fields of timeval, so no width is modelled.)
TvSec(timeout) == CDiv(timeout, 1000)
\* The remainder left in milliseconds.
TvUsec_Millis(timeout) == CMod(timeout, 1000)
\* tv.tv_usec = (timeout % 1000) * 1000
TvUsec(timeout) == CMod(timeout, 1000) * 1000

\* attrlist without the push_back(0).
AttrList_NoTerminator(attrs) == [i \in 1 .. Len(attrs) |-> Ptr(attrs[i])]

\* attrlist after the push_back loop and the push_back(0)
AttrList(attrs) ==
    [i \in 1 .. Len(attrs) + 1 |->
        IF i <= Len(attrs) THEN Ptr(attrs[i]) ELSE NullPtr]

\* Search that does not look at rc: a result is returned whatever the
\* engine answered.
SearchCall_IgnoreRc(h, base, scope, filter, attrs, timeout, rc) ==
    LET search == [ev |-> "ldap_search_ext_s", h |-> h, base |-> Ptr(base),
                   scope |-> scope, filter |-> Ptr(filter),
                   attrs |-> [null |-> FALSE, arr |-> AttrList(attrs)],
                   tv_sec |-> TvSec(timeout), tv_usec |-> TvUsec(timeout),
                   rc |-> rc]
    IN  Outcome(<<[ev |-> "attrlist", h |-> h], search,
                  [ev |-> "new LDAPResult", h |-> h],
                  [ev |-> "~attrlist", h |-> h]>>,
                NoExc, [kind |-> "LDAPResult", val |-> <<h>>])

\* LDAPResult* LDAPConnection::Search(base, scope, filter, attrs, timeout)
\* attrlist is a local std::vector: it is destroyed when the call ends, on
\* return and during unwinding alike.  &attrlist[0] is never null.
SearchCall(h, base, scope, filter, attrs, timeout, rc) ==
    LET search == [ev |-> "ldap_search_ext_s", h |-> h, base |-> Ptr(base),
                   scope |-> scope, filter |-> Ptr(filter),
                   attrs |-> [null |-> FALSE, arr |-> AttrList(attrs)],
                   tv_sec |-> TvSec(timeout), tv_usec |-> TvUsec(timeout),
                   rc |-> rc]
    IN  IF rc # 0
        THEN Outcome(<<[ev |-> "attrlist", h |-> h], search,
                       LDAPErrCode2Exception(h, rc),
                       [ev |-> "~attrlist", h |-> h]>>,
                     LDAPException(rc), NoRet)
        ELSE Outcome(<<[ev |-> "attrlist", h |-> h], search,
                       [ev |-> "new LDAPResult", h |-> h],
                       [ev |-> "~attrlist", h |-> h]>>,
                     NoExc, [kind |-> "LDAPResult", val |-> <<h>>])

\* Search(base, scope, filter, attrs)
SearchAttrsCall(h, base, scope, filter, attrs, rc) ==
    SearchCall(h, base, scope, filter, attrs, 30000, rc)

\* Search(base, scope, filter, timeout)
SearchTimeoutCall(h, base, scope, filter, timeout, rc) ==
    SearchCall(h, base, scope, filter, kLdapFilterAll, timeout, rc)

\* Search(base, scope, filter)
SearchScopeCall(h, base, scope, filter, rc) ==
    SearchCall(h, base, scope, filter, kLdapFilterAll, 30000, rc)

\* Search(base, filter, timeout)
SearchBaseTimeoutCall(h, base, filter, timeout, rc) ==
    SearchCall(h, base, LDAP_SCOPE_SUBTREE, filter, kLdapFilterAll,
               timeout, rc)

\* Search(base, filter) with a default timeout of 3 seconds.
SearchBaseCall_ShortTimeout(h, base, filter, rc) ==
    SearchCall(h, base, LDAP_SCOPE_SUBTREE, filter, kLdapFilterAll, 3000, rc)

\* Search(base, filter)
SearchBaseCall(h, base, filter, rc) ==
    SearchCall(h, base, LDAP_SCOPE_SUBTREE, filter, kLdapFilterAll, 30000,
               rc)

(* ------------------------------ state --------------------------------- *)

VARIABLES
    running,     \* FALSE once the process has died
    obj,         \* per connection object: "unborn", "live", "failed" (its
                 \* constructor threw, the object never existed), "destroyed"
    handle,      \* engine: per LDAP* handle "none", "open", "released"
    version,     \* engine: protocol version option of each handle (0: unset,
                 \* and again 0 once the handle is released)
    unbinds,     \* engine: ldap_unbind_ext_s calls received per handle
    credBufs,    \* heap: credential buffers allocated and not yet released
    attrArrays,  \* attribute arrays (attrlist) constructed and not destroyed
    last         \* the most recent public call: its inputs and its outcome

vars == <<running, obj, handle, version, unbinds, credBufs, attrArrays,
          last>>

Max(S) == CHOOSE x \in S : \A y \in S : x >= y

\* Value of an engine option after the calls of trace: the value of the last
\* accepted fn(h, opt, val) call, old when there is none.
OptionAfter(trace, fn, h, opt, old) ==
    LET ok == {i \in 1 .. Len(trace) :
                 /\ trace[i].ev = fn
                 /\ trace[i].h = h
                 /\ trace[i].opt = opt
                 /\ trace[i].rc = 0}
    IN  IF ok = {} THEN old ELSE trace[Max(ok)].val

\* State of handle h after the calls of trace.
HandleAfter(trace, h, old) ==
    IF \E i \in 1 .. Len(trace) :
          trace[i].ev = "ldap_unbind_ext_s" /\ trace[i].h = h
    THEN "released"
    ELSE IF \E i \in 1 .. Len(trace) :
          trace[i].ev = "ldap_initialize" /\ trace[i].h = h /\ trace[i].rc = 0
    THEN "open"
    ELSE old

UnbindsIn(trace, h) ==
    Cardinality({i \in 1 .. Len(trace) :
                   trace[i].ev = "ldap_unbind_ext_s" /\ trace[i].h = h})

\* What a public call leaves behind: the record of the call, the state of
\* the engine handles its engine calls produced, and the transient
\* allocations it made and did not release.  The process-wide options
\* (debug levels, CA certificate) live in the engine and are read by nothing
\* here; the calls that set them are kept in the record of the call.
Effect(op, s, args, out) ==
    /\ last' = [op |-> op, s |-> s, args |-> args, trace |-> out.trace,
                exc |-> out.exc, ret |-> out.ret]
    /\ running' = (out.exc.kind # "crash")
    /\ handle' = [h \in Sessions |-> HandleAfter(out.trace, h, handle[h])]
    /\ version' = [h \in Sessions |->
                     IF HandleAfter(out.trace, h, handle[h]) = "released"
                     THEN 0
                     ELSE OptionAfter(out.trace, "ldap_set_option", h,
                                      "LDAP_OPT_PROTOCOL_VERSION",
                                      version[h])]
    /\ unbinds' = [h \in Sessions |-> unbinds[h] + UnbindsIn(out.trace, h)]
    /\ credBufs' = credBufs + Count(out.trace, "strdup")
                            + Count(out.trace, "ber_strdup")
                            - Count(out.trace, "free")
                            - Count(out.trace, "ber_memfree")
    /\ attrArrays' = attrArrays + Count(out.trace, "attrlist")
                                - Count(out.trace, "~attrlist")

Init ==
    /\ running = TRUE
    /\ obj = [s \in Sessions |-> "unborn"]
    /\ handle = [s \in Sessions |-> "none"]
    /\ version = [s \in Sessions |-> 0]
    /\ unbinds = [s \in Sessions |-> 0]
    /\ credBufs = 0
    /\ attrArrays = 0
    /\ last = [op |-> "none", s |-> NullHandle, args |-> << >>,
               trace |-> << >>, exc |-> NoExc, ret |-> NoRet]

(* ------------------------------ actions ------------------------------- *)

LDAPSetDebuglevel ==
    /\ running
    /\ \E newlevel \in DebugLevels, rc1 \in RCs, rc2 \in RCs :
          Effect("LDAPSetDebuglevel", NullHandle, [newlevel |-> newlevel],
                 LDAPSetDebuglevelCall(newlevel, rc1, rc2))
    /\ UNCHANGED obj

LDAPSetCACert ==
    /\ running
    /\ \E path \in CertPaths, rc \in RCs :
          Effect("LDAPSetCACert", NullHandle, [path |-> path],
                 LDAPSetCACertCall(path, rc))
    /\ UNCHANGED obj

\* new LDAPConnection(uri, version): the object exists only if the
\* constructor returns; when it throws no destructor runs.
LDAPConnection_ctor(s) ==
    /\ running
    /\ obj[s] = "unborn"
    /\ \E uri \in URIs, v \in Versions, rcInit \in RCs, rcOpt \in RCs :
          LET out == LDAPConnectionCall(s, uri, v, rcInit, rcOpt)
          IN  /\ Effect("LDAPConnection", s, [uri |-> uri, version |-> v],
                        out)
              /\ obj' = [obj EXCEPT ![s] =
                           IF out.exc = NoExc THEN "live" ELSE "failed"]

LDAPConnection_dtor(s) ==
    /\ running
    /\ obj[s] = "live"
    /\ Effect("~LDAPConnection", s, << >>, LDAPConnectionDtorCall(s))
    /\ obj' = [obj EXCEPT ![s] = "destroyed"]

GetLastError(s) ==
    /\ running
    /\ obj[s] = "live"
    /\ \E rc \in RCs, str \in ErrorTexts,
          ub \in {"std::logic_error", "crash"} :
          Effect("GetLastError", s, << >>, GetLastErrorCall(s, rc, str, ub))
    /\ UNCHANGED obj

SetVersion(s) ==
    /\ running
    /\ obj[s] = "live"
    /\ \E v \in Versions, rc \in RCs :
          Effect("SetVersion", s, [newversion |-> v],
                 SetVersionCall(s, v, rc))
    /\ UNCHANGED obj

SimpleBind(s) ==
    /\ running
    /\ obj[s] = "live"
    /\ \E user \in Users, password \in Passwords, rc \in RCs :
          Effect("SimpleBind", s, [user |-> user, password |-> password],
                 SimpleBindCall(s, user, password, rc))
    /\ UNCHANGED obj

SASLBind(s) ==
    /\ running
    /\ obj[s] = "live"
    /\ \E user \in Users, password \in Passwords, rc \in RCs :
          Effect("SASLBind", s, [user |-> user, password |-> password],
                 SASLBindCall(s, user, password, rc))
    /\ UNCHANGED obj

\* Search(base, scope, filter, attrs, timeout)
Search(s) ==
    /\ running
    /\ obj[s] = "live"
    /\ \E base \in Bases, filter \in Filters, in \in SearchInputs,
          rc \in RCs :
          Effect("Search", s,
                 [base |-> base, scope |-> in.scope, filter |-> filter,
                  attrs |-> in.attrs, timeout |-> in.timeout],
                 SearchCall(s, base, in.scope, filter, in.attrs, in.timeout,
                            rc))
    /\ UNCHANGED obj

\* Search(base, scope, filter, attrs)
SearchAttrs(s) ==
    /\ running
    /\ obj[s] = "live"
    /\ \E base \in Bases, scope \in Scopes, filter \in Filters,
          attrs \in AttrVectors, rc \in RCs :
          Effect("SearchAttrs", s,
                 [base |-> base, scope |-> scope, filter |-> filter,
                  attrs |-> attrs],
                 SearchAttrsCall(s, base, scope, filter, attrs, rc))
    /\ UNCHANGED obj

\* Search(base, scope, filter, timeout)
SearchTimeout(s) ==
    /\ running
    /\ obj[s] = "live"
    /\ \E base \in Bases, scope \in Scopes, filter \in Filters,
          timeout \in Timeouts, rc \in RCs :
          Effect("SearchTimeout", s,
                 [base |-> base, scope |-> scope, filter |-> filter,
                  timeout |-> timeout],
                 SearchTimeoutCall(s, base, scope, filter, timeout, rc))
    /\ UNCHANGED obj

\* Search(base, scope, filter)
SearchScope(s) ==
    /\ running
    /\ obj[s] = "live"
    /\ \E base \in Bases, scope \in Scopes, filter \in Filters, rc \in RCs :
          Effect("SearchScope", s,
                 [base |-> base, scope |-> scope, filter |-> filter],
                 SearchScopeCall(s, base, scope, filter, rc))
    /\ UNCHANGED obj

\* Search(base, filter, timeout)
SearchBaseTimeout(s) ==
    /\ running
    /\ obj[s] = "live"
    /\ \E base \in Bases, filter \in Filters, timeout \in Timeouts,
          rc \in RCs :
          Effect("SearchBaseTimeout", s,
                 [base |-> base, filter |-> filter, timeout |-> timeout],
                 SearchBaseTimeoutCall(s, base, filter, timeout, rc))
    /\ UNCHANGED obj

\* Search(base, filter)
SearchBase(s) ==
    /\ running
    /\ obj[s] = "live"
    /\ \E base \in Bases, filter \in Filters, rc \in RCs :
          Effect("SearchBase", s, [base |-> base, filter |-> filter],
                 SearchBaseCall(s, base, filter, rc))
    /\ UNCHANGED obj

Next ==
    \/ LDAPSetDebuglevel
    \/ LDAPSetCACert
    \/ \E s \in Sessions : LDAPConnection_ctor(s)
    \/ \E s \in Sessions : LDAPConnection_dtor(s)
    \/ \E s \in Sessions : GetLastError(s)
    \/ \E s \in Sessions : SetVersion(s)
    \/ \E s \in Sessions : SimpleBind(s)
    \/ \E s \in Sessions : SASLBind(s)
    \/ \E s \in Sessions : Search(s)
    \/ \E s \in Sessions : SearchAttrs(s)
    \/ \E s \in Sessions : SearchTimeout(s)
    \/ \E s \in Sessions : SearchScope(s)
    \/ \E s \in Sessions : SearchBaseTimeout(s)
    \/ \E s \in Sessions : SearchBase(s)

Spec == Init /\ [][Next]_vars

(* ------------------------------ claims ------------------------------- *)

\* Engine functions that answer with a return code.
EngineFns == {"ldap_initialize", "ldap_set_option", "ber_set_option",
              "ldap_get_option", "ldap_sasl_bind_s", "ldap_search_ext_s"}
\* The Search overloads, and those that omit a parameter.
SearchOps == {"Search", "SearchAttrs", "SearchTimeout", "SearchScope",
              "SearchBaseTimeout", "SearchBase"}
OmitAttrs == {"SearchTimeout", "SearchScope", "SearchBaseTimeout",
              "SearchBase"}
OmitTimeout == {"SearchAttrs", "SearchScope", "SearchBase"}
OmitScope == {"SearchBaseTimeout", "SearchBase"}

\* The calls of engine function name made by the most recent public call.
CallsOf(name) == {last.trace[i] : i \in Pos(last.trace, name)}
\* Position of the only event called name in the most recent public call.
At(name) == Min(Pos(last.trace, name))

\* C1: SimpleBind(user, password) hands the engine a credential whose bytes
\* are the password and whose length is the password's length.
C1_SimpleBindCredentialIsPassword ==
    last.op = "SimpleBind" =>
        \A c \in CallsOf("ldap_sasl_bind_s") :
            /\ c.cred.bv_val = last.args.password
            /\ c.cred.bv_len = Len(last.args.password)
            /\ c.dn = Ptr(last.args.user)

\* C2: a Search that omits the attribute list hands the engine a null
\* attribute-list pointer, not a non-null array holding only the terminator.
C2_OmittedAttrsReachEngineAsNull ==
    last.op \in OmitAttrs =>
        \A c \in CallsOf("ldap_search_ext_s") : c.attrs.null

\* C3: SetVersion(v) with v in {2, 3} makes one set-option call and, when
\* the engine accepts it, succeeds and the handle has version v; with any
\* other v it fails with a parameter error, makes no engine call and leaves
\* the protocol version of the session unchanged.
C3_SetVersionValidates ==
    [][ last'.op = "SetVersion" =>
          LET v == last'.args.newversion
              h == last'.s
          IN  IF v \in {LDAP_VERSION2, LDAP_VERSION3}
              THEN /\ Len(last'.trace) >= 1
                   /\ last'.trace[1].ev = "ldap_set_option"
                   /\ last'.trace[1].h = h
                   /\ last'.trace[1].val = v
                   /\ Count(last'.trace, "ldap_set_option") = 1
                   /\ last'.trace[1].rc = 0 =>
                        /\ last'.exc = NoExc
                        /\ version'[h] = v
                   /\ last'.trace[1].rc # 0 => version'[h] = version[h]
              ELSE /\ last'.exc.kind = "LDAPErrParamError"
                   /\ \A i \in 1 .. Len(last'.trace) :
                         last'.trace[i].ev \notin EngineFns
                   /\ version' = version
                   /\ handle' = handle
      ]_vars

C3_Witness ==
    /\ last.op = "SetVersion"
    /\ last.args.newversion = 4
    /\ last.exc.kind = "LDAPErrParamError"
    /\ version[last.s] = LDAP_VERSION3

\* C4: when the engine returns a non-zero code from a call, the public call
\* that made it raises an error carrying that code, and a Search returns a
\* result object exactly when the engine's search returned zero.
C4_ErrorPropagation ==
    /\ \A i \in 1 .. Len(last.trace) :
          (last.trace[i].ev \in EngineFns /\ last.trace[i].rc # 0) =>
              last.exc = LDAPException(last.trace[i].rc)
    /\ last.op \in SearchOps =>
          /\ Count(last.trace, "ldap_search_ext_s") = 1
          /\ (last.ret.kind = "LDAPResult")
                <=> (last.trace[At("ldap_search_ext_s")].rc = 0)
          /\ (last.exc = NoExc)
                <=> (last.trace[At("ldap_search_ext_s")].rc = 0)
    /\ last.op \notin SearchOps => last.ret.kind # "LDAPResult"

C4_Witness ==
    /\ last.op \in SearchOps
    /\ last.exc = LDAPException(49)
    /\ last.ret = NoRet

\* C5: every shorter Search overload does what the five-argument Search
\* does with scope = subtree, attrs = all attributes and timeout = 30000 in
\* place of the parameters it omits, and an omitted timeout reaches the
\* engine as 30 seconds and 0 microseconds.
C5_OverloadsFillDefaults ==
    (last.op \in SearchOps /\ last.op # "Search") =>
        LET a  == last.args
            c  == last.trace[At("ldap_search_ext_s")]
            full == SearchCall(
                last.s, a.base,
                IF last.op \in OmitScope THEN LDAP_SCOPE_SUBTREE ELSE a.scope,
                a.filter,
                IF last.op \in OmitAttrs THEN kLdapFilterAll ELSE a.attrs,
                IF last.op \in OmitTimeout THEN 30000 ELSE a.timeout,
                c.rc)
        IN  /\ last.trace = full.trace
            /\ last.exc = full.exc
            /\ last.ret = full.ret
            /\ last.op \in OmitScope => c.scope = LDAP_SCOPE_SUBTREE
            /\ last.op \in OmitTimeout => (c.tv_sec = 30 /\ c.tv_usec = 0)

C5_Witness ==
    /\ last.op = "SearchBase"
    /\ last.exc = NoExc
    /\ last.trace[At("ldap_search_ext_s")].tv_sec = 30

\* C6: destroying a successfully constructed session makes exactly one
\* unbind call on its handle, whatever was called on it before; a live
\* session has made none.
C6_DestroyUnbindsOnce ==
    /\ \A s \in Sessions :
          /\ obj[s] = "destroyed" => (unbinds[s] = 1 /\ handle[s] = "released")
          /\ obj[s] = "live" => (unbinds[s] = 0 /\ handle[s] = "open")
    /\ last.op = "~LDAPConnection" =>
          /\ Count(last.trace, "ldap_unbind_ext_s") = 1
          /\ last.trace[At("ldap_unbind_ext_s")].h = last.s

C6_Witness ==
    /\ last.op = "~LDAPConnection"
    /\ obj[last.s] = "destroyed"

\* C7: for a timeout T >= 0 in milliseconds Search hands the engine
\* seconds = T div 1000 and microseconds = (T mod 1000) * 1000, so that
\* seconds * 1000000 + microseconds = T * 1000 and
\* 0 <= microseconds < 1000000.
C7_TimeoutDecomposition ==
    (last.op \in SearchOps \ OmitTimeout /\ last.args.timeout >= 0) =>
        LET T == last.args.timeout
            c == last.trace[At("ldap_search_ext_s")]
        IN  /\ c.tv_sec = T \div 1000
            /\ c.tv_usec = (T % 1000) * 1000
            /\ c.tv_sec * 1000000 + c.tv_usec = T * 1000
            /\ 0 <= c.tv_usec /\ c.tv_usec < 1000000

C7_Witness ==
    /\ last.op = "Search"
    /\ last.args.timeout = 1500
    /\ last.trace[At("ldap_search_ext_s")].tv_sec = 1
    /\ last.trace[At("ldap_search_ext_s")].tv_usec = 500000

\* C8: for N attribute names given to Search the array handed to the engine
\* holds those N names in the caller's order followed by one null
\* terminator, and the array is gone when the call ends, on the success
\* path and on the failure path.
C8_AttributeArray ==
    /\ attrArrays = 0
    /\ last.op \in SearchOps \ OmitAttrs =>
          LET attrs == last.args.attrs
              N == Len(attrs)
              c == last.trace[At("ldap_search_ext_s")]
          IN  /\ ~c.attrs.null
              /\ Len(c.attrs.arr) = N + 1
              /\ \A i \in 1 .. N :
                    /\ ~c.attrs.arr[i].null
                    /\ c.attrs.arr[i].str = attrs[i]
              /\ c.attrs.arr[N + 1].null
              /\ Count(last.trace, "attrlist") = 1
              /\ Count(last.trace, "~attrlist") = 1
              /\ At("attrlist") < At("ldap_search_ext_s")
              /\ At("ldap_search_ext_s") < At("~attrlist")

C8_Witness ==
    /\ last.op = "Search"
    /\ Len(last.args.attrs) = 2
    /\ last.args.attrs[1] # last.args.attrs[2]
    /\ last.exc # NoExc
    /\ attrArrays = 0

\* C9: every handle obtained by a successful initialize is released by
\* exactly one unbind, also when the constructor fails after initialize
\* succeeded: once the object is gone (destroyed, or never constructed
\* because the constructor threw) its handle has been unbound once.
C9_EveryHandleReleased ==
    \A s \in Sessions :
        (obj[s] \in {"failed", "destroyed"} /\ handle[s] # "none") =>
            (unbinds[s] = 1 /\ handle[s] = "released")

\* C10: SimpleBind and SASLBind allocate the credential buffer once and
\* release it once on every exit path, after the engine's bind call returns
\* and before the error is raised; no credential buffer is left allocated
\* when the call ends.
C10_CredentialBufferReleased ==
    /\ credBufs = 0
    /\ last.op \in {"SimpleBind", "SASLBind"} =>
          LET alloc == IF last.op = "SimpleBind" THEN "strdup"
                                                 ELSE "ber_strdup"
              free  == IF last.op = "SimpleBind" THEN "free"
                                                 ELSE "ber_memfree"
          IN  /\ Count(last.trace, alloc) = 1
              /\ Count(last.trace, free) = 1
              /\ Count(last.trace, "ldap_sasl_bind_s") = 1
              /\ At(alloc) < At("ldap_sasl_bind_s")
              /\ At("ldap_sasl_bind_s") < At(free)
              /\ \A i \in Pos(last.trace, "LDAPErrCode2Exception") :
                    At(free) < i
              /\ (last.exc # NoExc) <=>
                    (Count(last.trace, "LDAPErrCode2Exception") = 1)

C10_Witness ==
    /\ last.op = "SASLBind"
    /\ last.exc = LDAPException(49)
    /\ credBufs = 0

=============================================================================
